---- MODULE Spec2Model ----
(***************************************************************************)
(* The Redfish emulator of sushy_tools/emulator/main.py as a state machine. *)
(* One action per route handler; each action runs the whole request:        *)
(* the access decorator, the handler body with every driver call it makes,  *)
(* and, when an exception escapes, all_exception_handler.                   *)
(*                                                                          *)
(* The drivers (systems, chassis, managers, indicators, volumes) and        *)
(* api_utils are not in main.py; they are modelled from the driver          *)
(* contract of the specification and are marked so in the model map.        *)
(***************************************************************************)
EXTENDS Integers, Sequences, FiniteSets, TLC

\* Python's None / an absent JSON key (dict.get returns None).
None == "None"

\* Number of requests served in one run of the model.
MaxRequests == 2

\* Requests each worker thread handles.
MaxHandled == 2

\* Reads of memoized properties in one request.
MaxReads == 2

-----------------------------------------------------------------------------
(* The backend the emulator fronts.                                        *)

\* app.systems.systems: the UUIDs of the backend instances, in driver order.
systems == <<"u1", "u2">>

\* The driver's alias (domain name) of each instance; "u2" has none.
AliasOf == [a \in {"a1"} |-> "u1"]

\* Identity path segments the clients of the model send: the UUID of the
\* first instance, its alias, and an identity no instance has.  The second
\* instance is part of every listing.
Identities == {"u1", "a1", "zz"}

\* app.chassis.chassis: the chassis in driver-declared order.
chassis_list == <<"c1", "c2">>

ChassisIdentities == {"c1", "c2", "zz"}

\* app.managers.managers
managers_list == <<"m1">>

ManagerIdentities == {"m1", "zz"}

StorageIds == {"s1"}

\* The values SUSHY_EMULATOR_ALLOWED_INSTANCES may have; `configured` is
\* FALSE when the option is absent from the configuration.
AllowLists ==
    { [configured |-> FALSE, members |-> {}],
      [configured |-> TRUE,  members |-> {}],
      [configured |-> TRUE,  members |-> {"u1"}] }

Range(s) == { s[i] : i \in 1..Len(s) }

SystemUuids == Range(systems)

\* Keys of the indicator side-table: system and chassis UUIDs.
IndicatorKeys == SystemUuids \cup Range(chassis_list)

\* The state an indicator reports when it was never set.
DefaultIndicator == "Off"

VARIABLES
    allowed,      \* app.config SUSHY_EMULATOR_ALLOWED_INSTANCES
    sys,          \* backend state of each instance, behind app.systems
    indicators,   \* app.indicators side-table: key -> state, None if unset
    volumes,      \* app.volumes side-table: <<uuid, storage_id>> -> records
    served,       \* number of requests served
    last,         \* the last request and its response
    cache,        \* app._cache and the dict objects it was bound to
    workers,      \* worker threads: each one's request in flight
    jobs          \* worker threads: each one's volume request, step by step

vars ==
    <<allowed, sys, indicators, volumes, served, last, cache, workers, jobs>>

-----------------------------------------------------------------------------
(* Exceptions (sushy_tools.error) and how a handler run is threaded.       *)

NoExc == [kind |-> "none", arg |-> None, hasCode |-> FALSE, code |-> 0]

NotFound == [kind |-> "NotFound", arg |-> None, hasCode |-> TRUE, code |-> 404]

AliasAccessError(uuid) ==
    [kind |-> "AliasAccessError", arg |-> uuid, hasCode |-> TRUE, code |-> 500]

\* An exception of a driver's backend (libvirt, openstack, ...): no FishyError.
BackendError ==
    [kind |-> "Exception", arg |-> None, hasCode |-> FALSE, code |-> 0]

\* An exception of a driver's backend whose object carries an attribute
\* named `code` (an HTTP client error of a cloud SDK, for one).
CodedBackendError ==
    [kind |-> "Exception", arg |-> None, hasCode |-> TRUE, code |-> 409]

\* error.NotSupportedError: the driver lacks the capability.
NotSupportedError ==
    [kind |-> "NotSupportedError", arg |-> None, hasCode |-> FALSE, code |-> 0]

\* werkzeug.routing.BuildError, raised by flask.url_for on a missing value.
BuildError ==
    [kind |-> "BuildError", arg |-> None, hasCode |-> FALSE, code |-> 0]

NoView ==
    [name |-> None, uuid |-> None, power |-> None, boot |-> None,
     mode |-> None, led |-> None, bios |-> None, secure |-> None,
     item |-> None, memory |-> None, cpus |-> None]

\* The other contained-resource lists of a chassis document.
NoLists ==
    [managers |-> <<>>, storage |-> <<>>, drives |-> <<>>, chassis |-> <<>>]

\* A run of a handler: the state as changed so far, the driver setters
\* invoked so far, the pending exception, and the returned response
\* (st = 0 while the handler has not returned).
Start ==
    [sys |-> sys, ind |-> indicators, vols |-> volumes, calls |-> <<>>,
     exc |-> NoExc, st |-> 0, loc |-> <<>>, content |-> None,
     members |-> <<>>, lists |-> NoLists, view |-> NoView,
     resolved |-> <<>>, unsupported |-> {}]

Live(c) == c.exc.kind = "none" /\ c.st = 0

Raise(c, e) == IF Live(c) THEN [c EXCEPT !.exc = e] ELSE c

\* `return contents, status` of a handler.
Return(c, status, content) ==
    IF Live(c) THEN [c EXCEPT !.st = status, !.content = content] ELSE c

\* Truth value of a JSON string or null in a Python condition.
Truthy(v) == v \notin {None, ""}

-----------------------------------------------------------------------------
(* Routes: the path template of each endpoint under /redfish/v1, as the    *)
(* app.route decorators declare them.  A segment in RouteArgNames is a     *)
(* <variable> of the template.                                             *)

RouteArgNames ==
    {"identity", "nic_id", "processor_id", "simple_storage_id",
     "storage_id", "stg_id", "drv_id", "vol_id"}

Route(ep) ==
    CASE ep = "chassis_resource" -> <<"Chassis", "identity">>
      [] ep = "thermal_resource" -> <<"Chassis", "identity", "Thermal">>
      [] ep = "manager_resource" -> <<"Managers", "identity">>
      [] ep = "system_collection_resource" -> <<"Systems">>
      [] ep = "system_resource" -> <<"Systems", "identity">>
      [] ep = "ethernet_interfaces_collection" ->
            <<"Systems", "identity", "EthernetInterfaces">>
      [] ep = "ethernet_interface" ->
            <<"Systems", "identity", "EthernetInterfaces", "nic_id">>
      [] ep = "processors_collection" ->
            <<"Systems", "identity", "Processors">>
      [] ep = "processor" ->
            <<"Systems", "identity", "Processors", "processor_id">>
      [] ep = "system_reset_action" ->
            <<"Systems", "identity", "Actions", "ComputerSystem.Reset">>
      [] ep = "bios" -> <<"Systems", "identity", "BIOS">>
      [] ep = "bios_settings" -> <<"Systems", "identity", "BIOS", "Settings">>
      [] ep = "system_reset_bios" ->
            <<"Systems", "identity", "BIOS", "Actions", "Bios.ResetBios">>
      [] ep = "secure_boot" -> <<"Systems", "identity", "SecureBoot">>
      [] ep = "simple_storage_collection" ->
            <<"Systems", "identity", "SimpleStorage">>
      [] ep = "simple_storage" ->
            <<"Systems", "identity", "SimpleStorage", "simple_storage_id">>
      [] ep = "storage_collection" -> <<"Systems", "identity", "Storage">>
      [] ep = "storage" -> <<"Systems", "identity", "Storage", "storage_id">>
      [] ep = "drive_resource" ->
            <<"Systems", "identity", "Storage", "stg_id", "Drives", "drv_id">>
      [] ep = "volumes_collection" ->
            <<"Systems", "identity", "Storage", "storage_id", "Volumes">>
      [] ep = "volume" ->
            <<"Systems", "identity", "Storage", "stg_id", "Volumes", "vol_id">>

\* The variables of an endpoint's route.
RouteArgs(ep) == Range(Route(ep)) \cap RouteArgNames

\* The endpoints decorated with api_utils.ensure_instance_access: every
\* route under /redfish/v1/Systems/<identity>.
PerInstanceEndpoints ==
    {"system_resource", "ethernet_interfaces_collection", "ethernet_interface",
     "processors_collection", "processor", "system_reset_action", "bios",
     "bios_settings", "system_reset_bios", "secure_boot",
     "simple_storage_collection", "simple_storage", "storage_collection",
     "storage", "drive_resource", "volumes_collection", "volume"}

\* The path a route's template gives for the values of its variables.
PathOf(ep, values) ==
    [i \in 1..Len(Route(ep)) |->
        IF Route(ep)[i] \in RouteArgNames THEN values[Route(ep)[i]]
        ELSE Route(ep)[i]]

\* flask.url_for(endpoint, **values): builds the URL when every variable of
\* the route has a value, and raises BuildError otherwise.
url_for_builds(ep, values) == RouteArgs(ep) \subseteq DOMAIN values

-----------------------------------------------------------------------------
(* api_utils: the access gate.                                             *)

\* True when the identity is not in the configured allow-list; a missing
\* option (KeyError) denies nothing.
instance_denied(identity) ==
    IF allowed.configured THEN identity \notin allowed.members ELSE FALSE

\* Decorator of every per-instance route: a denied identity is answered as
\* NotFound and the handler does not run.
ensure_instance_access(identity, run) ==
    IF instance_denied(identity) THEN Raise(Start, NotFound) ELSE run

-----------------------------------------------------------------------------
(* The error handler.                                                      *)

\* The status all_exception_handler gives an exception that is not an
\* AliasAccessError: its `code` attribute, 500 when it has none.
ErrorStatus(e) == IF e.hasCode THEN e.code ELSE 500

\* A faulty variant of all_exception_handler: the `code` attribute of the
\* exception is ignored and every error is answered 500.
all_exception_handler_plain(ep, e) ==
    [st |-> 500, loc |-> <<>>, content |-> "error.json", exc |-> e.kind]

\* @app.errorhandler(Exception).  For an AliasAccessError it redirects to
\* url_for(request.endpoint, identity=<uuid>); url_for is given no other
\* value, so it raises BuildError for a route with further variables, and
\* that exception is answered like any other unexpected one.
all_exception_handler(ep, e) ==
    IF e.kind = "AliasAccessError"
    THEN IF url_for_builds(ep, [identity |-> e.arg])
         THEN [st |-> 307, loc |-> PathOf(ep, [identity |-> e.arg]),
               content |-> "", exc |-> e.kind]
         ELSE [st |-> ErrorStatus(BuildError), loc |-> <<>>,
               content |-> "error.json", exc |-> BuildError.kind]
    ELSE [st |-> ErrorStatus(e), loc |-> <<>>, content |-> "error.json",
          exc |-> e.kind]

\* The response of a finished handler run: the error handler's when an
\* exception escaped, else what api_utils.returns_json makes of the
\* handler's return value (none_status when the handler returned None).
Respond(ep, c, none_status) ==
    IF c.exc.kind # "none" THEN all_exception_handler(ep, c.exc)
    ELSE IF c.st = 0
         THEN [st |-> none_status, loc |-> <<>>, content |-> "",
               exc |-> "none"]
    ELSE [st |-> c.st, loc |-> c.loc, content |-> c.content, exc |-> "none"]

-----------------------------------------------------------------------------
(* The systems driver behind app.systems.                                  *)

\* The state of an instance when the emulator starts.
InitialSystem ==
    [power |-> "Off", boot |-> "Hdd", mode |-> "Legacy", bios |-> "default",
     secure |-> "False"]

\* The seven ResetType values of ComputerSystem.Reset.
ResetTypes ==
    {"On", "ForceOn", "ForceOff", "GracefulShutdown", "GracefulRestart",
     "ForceRestart", "Nmi"}

\* Identity resolution of every driver call: a UUID matches first, then an
\* alias, which signals AliasAccessError carrying the UUID; else NotFound.
systems_resolve(c, identity) ==
    IF ~Live(c) THEN c
    ELSE IF identity \in SystemUuids THEN c
    ELSE IF identity \in DOMAIN AliasOf
         THEN Raise(c, AliasAccessError(AliasOf[identity]))
    ELSE Raise(c, NotFound)

\* The faults of a request: `fault` names the driver call whose backend
\* raises during the request, with a plain exception (the call's name), an
\* exception carrying a code, or NotSupportedError.
Coded(fn) == "coded " \o fn

Unsupported(fn) == "unsupported " \o fn

\* A driver getter: resolves the identity, then raises what `fault` says;
\* the capabilities found missing are logged.
systems_get(c, fn, identity, fault) ==
    LET r == systems_resolve(c, identity)
    IN  IF ~Live(r) THEN r
        ELSE IF fault = fn THEN Raise(r, BackendError)
        ELSE IF fault = Coded(fn) THEN Raise(r, CodedBackendError)
        ELSE IF fault = Unsupported(fn)
             THEN Raise([r EXCEPT !.unsupported = @ \cup {fn}],
                        NotSupportedError)
        ELSE r

\* A faulty variant of try_get: the value of the getter is dropped also
\* when the getter returned one.
try_get_dropping(c, fn, identity, fault) ==
    LET r == systems_get(c, fn, identity, fault)
    IN  IF Live(c) /\ r.exc.kind \in {"none", "NotSupportedError"}
        THEN [r EXCEPT !.exc = NoExc, !.unsupported = @ \cup {fn}]
        ELSE r

\* try_get of system_resource: NotSupportedError of the getter is caught
\* and the value is None; every other exception passes.
try_get(c, fn, identity, fault) ==
    LET r == systems_get(c, fn, identity, fault)
    IN  IF Live(c) /\ r.exc.kind = "NotSupportedError"
        THEN [r EXCEPT !.exc = NoExc]
        ELSE r

\* The value a getter handed to the template: None when try_get caught
\* NotSupportedError.
Got(c, fn, value) == IF fn \in c.unsupported THEN None ELSE value

\* The power state after set_power_state(identity, state).
PowerAfter(old, state) ==
    CASE state \in {"On", "ForceOn", "GracefulRestart", "ForceRestart"} -> "On"
      [] state \in {"ForceOff", "GracefulShutdown"} -> "Off"
      [] OTHER -> old

\* The instance after the driver setter `fn` stored `value`.
SystemAfter(old, fn, value) ==
    CASE fn = "set_power_state" ->
            [old EXCEPT !.power = PowerAfter(old.power, value)]
      [] fn = "set_boot_device" -> [old EXCEPT !.boot = value]
      [] fn = "set_boot_mode" -> [old EXCEPT !.mode = value]
      [] fn = "set_bios" -> [old EXCEPT !.bios = value]
      [] fn = "reset_bios" -> [old EXCEPT !.bios = InitialSystem.bios]
      [] fn = "set_secure_boot" -> [old EXCEPT !.secure = value]

\* A driver setter invoked by a handler: the invocation is logged, the
\* identity resolved, and the value stored unless the backend raises.
systems_set(c, fn, identity, value, fault) ==
    IF ~Live(c) THEN c
    ELSE LET called ==
                 [c EXCEPT !.calls =
                     Append(@, [fn |-> fn, id |-> identity, val |-> value])]
             r == systems_get(called, fn, identity, fault)
         IN  IF Live(r)
             THEN [r EXCEPT !.sys[identity] = SystemAfter(@, fn, value)]
             ELSE r

\* app.systems.name(identity) of a resolved identity.
systems_name(uuid) ==
    IF \E a \in DOMAIN AliasOf : AliasOf[a] = uuid
    THEN CHOOSE a \in DOMAIN AliasOf : AliasOf[a] = uuid
    ELSE uuid

-----------------------------------------------------------------------------
(* The indicators, chassis and managers drivers.                           *)

\* app.indicators.get_indicator_state(uuid)
get_indicator_state(ind, uuid) ==
    IF ind[uuid] = None THEN DefaultIndicator ELSE ind[uuid]

\* app.indicators.set_indicator_state(uuid, state)
set_indicator_state(c, uuid, state, fault) ==
    IF ~Live(c) THEN c
    ELSE LET called ==
                 [c EXCEPT !.calls =
                     Append(@, [fn |-> "set_indicator_state", id |-> uuid,
                                val |-> state])]
         IN  IF fault = "set_indicator_state" THEN Raise(called, BackendError)
             ELSE [called EXCEPT !.ind[uuid] = state]

\* app.chassis.uuid(identity): NotFound for an unknown chassis.
chassis_uuid(c, identity) ==
    IF identity \in Range(chassis_list) THEN c ELSE Raise(c, NotFound)

\* app.managers.get_manager(identity): NotFound for an unknown manager.
get_manager(c, identity) ==
    IF identity \in Range(managers_list) THEN c ELSE Raise(c, NotFound)

\* app.managers.get_managed_systems(manager): the manager serves every system.
get_managed_systems(manager) == systems

\* app.storage.get_all_storage() and app.drives.get_all_drives()
get_all_storage == <<"s1">>

get_all_drives == <<"d1">>

-----------------------------------------------------------------------------
(* Request bodies (flask.request.json).                                    *)

\* The Boot object of a System PATCH: `present` is FALSE when the body has
\* no Boot key, `other` is TRUE when the object holds a key that is not one
\* of the two recognized ones.
NoBoot ==
    [present |-> FALSE, other |-> FALSE, BootSourceOverrideTarget |-> None,
     BootSourceOverrideMode |-> None]

NoBody ==
    [Boot |-> NoBoot, IndicatorLED |-> None, Attributes |-> None,
     SecureBootEnable |-> None, ResetType |-> None, Name |-> None,
     VolumeType |-> None, CapacityBytes |-> None]

\* Truth value of request.json.get('Boot'): None and {} are false.
TruthyBoot(boot) ==
    /\ boot.present
    /\ \/ boot.other
       \/ boot.BootSourceOverrideTarget # None
       \/ boot.BootSourceOverrideMode # None

\* flask.render_template(...) returned by a handler: status 200.
Render(c, template, view, members, lists) ==
    IF Live(c)
    THEN [c EXCEPT !.st = 200, !.content = template, !.view = view,
                   !.members = members, !.lists = lists]
    ELSE c

-----------------------------------------------------------------------------
(* The route handlers of main.py.                                          *)

\* A faulty variant of chassis_resource: the PATCH flips the indicator, so
\* asking for the state it already has puts it back to the default.
chassis_resource_toggle(c, method, identity, body, fault) ==
    LET r == chassis_uuid(c, identity)
        first == identity = chassis_list[1]
    IN  IF method = "GET"
        THEN Render(r, "chassis.json",
                    [NoView EXCEPT !.uuid = identity,
                        !.led = get_indicator_state(r.ind, identity)],
                    IF first THEN systems ELSE <<>>,
                    [managers |-> IF first THEN managers_list ELSE <<>>,
                     storage |-> IF first THEN get_all_storage ELSE <<>>,
                     drives |-> IF first THEN get_all_drives ELSE <<>>,
                     chassis |-> <<>>])
        ELSE IF ~Live(r) THEN r
        ELSE IF ~Truthy(body.IndicatorLED) THEN Return(r, 400, "text")
        ELSE Return(set_indicator_state(r, identity,
                        IF r.ind[identity] = body.IndicatorLED
                        THEN DefaultIndicator ELSE body.IndicatorLED,
                        fault),
                    204, "")

\* /redfish/v1/Chassis/<identity>, GET and PATCH
chassis_resource(c, method, identity, body, fault) ==
    LET r == chassis_uuid(c, identity)
        first == identity = chassis_list[1]
    IN  IF method = "GET"
        THEN Render(r, "chassis.json",
                    [NoView EXCEPT !.uuid = identity,
                        !.led = get_indicator_state(r.ind, identity)],
                    IF first THEN systems ELSE <<>>,
                    [managers |-> IF first THEN managers_list ELSE <<>>,
                     storage |-> IF first THEN get_all_storage ELSE <<>>,
                     drives |-> IF first THEN get_all_drives ELSE <<>>,
                     chassis |-> <<>>])
        ELSE IF ~Live(r) THEN r
        ELSE IF ~Truthy(body.IndicatorLED) THEN Return(r, 400, "text")
        ELSE Return(set_indicator_state(r, identity, body.IndicatorLED, fault),
                    204, "")

\* A faulty variant of thermal_resource: every chassis reports the systems.
thermal_resource_everywhere(c, identity) ==
    Render(chassis_uuid(c, identity), "thermal.json", NoView, systems,
           NoLists)

\* /redfish/v1/Chassis/<identity>/Thermal
thermal_resource(c, identity) ==
    LET r == chassis_uuid(c, identity)
    IN  Render(r, "thermal.json", NoView,
               IF identity = chassis_list[1] THEN systems ELSE <<>>, NoLists)

\* /redfish/v1/Managers
manager_collection_resource(c) ==
    Render(c, "manager_collection.json",
           [NoView EXCEPT !.item = ToString(Len(managers_list))],
           managers_list, NoLists)

\* /redfish/v1/Managers/<identity>: members are the ManagerForServers links.
manager_resource(c, identity) ==
    LET r == get_manager(c, identity)
    IN  Render(r, "Manager", [NoView EXCEPT !.uuid = identity],
               get_managed_systems(identity),
               [NoLists EXCEPT !.chassis = chassis_list])

\* A faulty variant of system_collection_resource: the allow-list filter
\* is left out and every backend system is listed.
system_collection_resource_unfiltered(c) ==
    Render(c, "system_collection.json",
           [NoView EXCEPT !.item = ToString(Len(systems))],
           systems, NoLists)

\* A faulty variant of system_collection_resource: the count is the number
\* of backend systems, not of the systems listed.
system_collection_resource_total(c) ==
    Render(c, "system_collection.json",
           [NoView EXCEPT !.item = ToString(Len(systems))],
           SelectSeq(systems, LAMBDA s : ~instance_denied(s)), NoLists)

\* /redfish/v1/Systems: the systems the allow-list does not deny.
system_collection_resource(c) ==
    LET listed == SelectSeq(systems, LAMBDA s : ~instance_denied(s))
    IN  Render(c, "system_collection.json",
               [NoView EXCEPT !.item = ToString(Len(listed))],
               listed, NoLists)

\* /redfish/v1/Systems/<identity>, GET and PATCH
system_resource(c, method, identity, body, fault) ==
    IF method = "GET"
    THEN LET r1 == systems_get(c, "name", identity, fault)
             r2 == systems_get(r1, "uuid", identity, fault)
             r3 == systems_get(r2, "get_power_state", identity, fault)
             m1 == try_get(r3, "get_total_memory", identity, fault)
             m2 == try_get(m1, "get_total_cpus", identity, fault)
             m3 == systems_get(m2, "get_boot_device", identity, fault)
             r4 == try_get(m3, "get_boot_mode", identity, fault)
         IN  IF ~Live(r4) THEN r4
             ELSE Render(r4, "system.json",
                         [NoView EXCEPT
                             !.name = systems_name(identity),
                             !.uuid = identity,
                             !.power = r4.sys[identity].power,
                             !.memory = Got(r4, "get_total_memory", "1"),
                             !.cpus = Got(r4, "get_total_cpus", "2"),
                             !.boot = r4.sys[identity].boot,
                             !.mode = Got(r4, "get_boot_mode",
                                          r4.sys[identity].mode),
                             !.led = get_indicator_state(r4.ind, identity)],
                         <<>>,
                         [NoLists EXCEPT !.managers = managers_list,
                                         !.chassis = SubSeq(chassis_list, 1, 1)])
    ELSE LET boot == body.Boot
             indicator_led_state == body.IndicatorLED
             target == boot.BootSourceOverrideTarget
             mode == boot.BootSourceOverrideMode
         IN  IF ~TruthyBoot(boot) /\ ~Truthy(indicator_led_state)
             THEN Return(c, 400, "text")
             ELSE LET c1 == IF TruthyBoot(boot) /\ Truthy(target)
                            THEN systems_set(c, "set_boot_device", identity,
                                             target, fault)
                            ELSE c
                      c2 == IF TruthyBoot(boot) /\ Truthy(mode)
                            THEN systems_set(c1, "set_boot_mode", identity,
                                             mode, fault)
                            ELSE c1
                      c3 == IF TruthyBoot(boot) /\ ~Truthy(target)
                               /\ ~Truthy(mode)
                            THEN Return(c2, 400, "text")
                            ELSE c2
                      c4 == IF Truthy(indicator_led_state)
                            THEN set_indicator_state(
                                     systems_get(c3, "uuid", identity, fault),
                                     identity, indicator_led_state, fault)
                            ELSE c3
                  IN  Return(c4, 204, "")

\* The static inventory the drivers report for an instance.
get_nics(uuid) == IF uuid = "u1" THEN <<"nic1", "nic2">> ELSE <<>>

get_processors(uuid) == IF uuid = "u1" THEN <<"CPU0">> ELSE <<>>

get_simple_storage_collection(uuid) == IF uuid = "u1" THEN {"IDE"} ELSE {}

get_storage_col(uuid) == IF uuid = "u1" THEN <<"s1">> ELSE <<>>

get_drives(uuid, stg_id) ==
    IF uuid = "u1" /\ stg_id = "s1" THEN <<"d1">> ELSE <<>>

\* A faulty variant of find_item: a miss renders the first element of a
\* list that has one.
find_item_first(c, template, items, wanted) ==
    IF ~Live(c) THEN c
    ELSE IF items # <<>>
         THEN Render(c, template,
                     [NoView EXCEPT !.item =
                         IF \E i \in 1..Len(items) : items[i] = wanted
                         THEN wanted ELSE items[1]],
                     <<>>, NoLists)
    ELSE Raise(c, NotFound)

\* `for x in items: if x['id'] == wanted: return render(x)`, then
\* `raise error.NotFound()`.
find_item(c, template, items, wanted) ==
    IF ~Live(c) THEN c
    ELSE IF \E i \in 1..Len(items) : items[i] = wanted
         THEN Render(c, template, [NoView EXCEPT !.item = wanted], <<>>,
                     NoLists)
    ELSE Raise(c, NotFound)

\* /redfish/v1/Systems/<identity>/EthernetInterfaces
ethernet_interfaces_collection(c, identity, fault) ==
    LET r == systems_get(c, "get_nics", identity, fault)
    IN  IF ~Live(r) THEN r
        ELSE Render(r, "ethernet_interfaces_collection.json", NoView,
                    get_nics(identity), NoLists)

\* /redfish/v1/Systems/<identity>/EthernetInterfaces/<nic_id>
ethernet_interface(c, identity, nic_id, fault) ==
    LET r == systems_get(c, "get_nics", identity, fault)
    IN  IF ~Live(r) THEN r
        ELSE find_item(r, "ethernet_interface.json", get_nics(identity),
                       nic_id)

\* /redfish/v1/Systems/<identity>/Processors
processors_collection(c, identity, fault) ==
    LET r == systems_get(c, "get_processors", identity, fault)
    IN  IF ~Live(r) THEN r
        ELSE Render(r, "processors_collection.json", NoView,
                    get_processors(identity), NoLists)

\* /redfish/v1/Systems/<identity>/Processors/<processor_id>
processor(c, identity, processor_id, fault) ==
    LET r == systems_get(c, "get_processors", identity, fault)
    IN  IF ~Live(r) THEN r
        ELSE find_item(r, "processor.json", get_processors(identity),
                       processor_id)

\* A faulty variant of system_reset_action: the forced and graceful
\* variants are folded into the plain power state before the driver call.
system_reset_action_folded(c, identity, body, fault) ==
    Return(systems_set(c, "set_power_state", identity,
                       IF body.ResetType \in ResetTypes \ {"Nmi"}
                       THEN PowerAfter("Off", body.ResetType)
                       ELSE body.ResetType,
                       fault),
           204, "")

\* /redfish/v1/Systems/<identity>/Actions/ComputerSystem.Reset
system_reset_action(c, identity, body, fault) ==
    Return(systems_set(c, "set_power_state", identity, body.ResetType, fault),
           204, "")

\* /redfish/v1/Systems/<identity>/BIOS
bios(c, identity, fault) ==
    LET r == systems_get(c, "get_bios", identity, fault)
    IN  IF ~Live(r) THEN r
        ELSE Render(r, "bios.json",
                    [NoView EXCEPT !.bios = r.sys[identity].bios], <<>>,
                    NoLists)

\* /redfish/v1/Systems/<identity>/BIOS/Settings, GET and PATCH
bios_settings(c, method, identity, body, fault) ==
    IF method = "GET"
    THEN LET r == systems_get(c, "get_bios", identity, fault)
         IN  IF ~Live(r) THEN r
             ELSE Render(r, "bios_settings.json",
                         [NoView EXCEPT !.bios = r.sys[identity].bios], <<>>,
                         NoLists)
    ELSE Return(systems_set(c, "set_bios", identity, body.Attributes, fault),
                204, "")

\* /redfish/v1/Systems/<identity>/BIOS/Actions/Bios.ResetBios
system_reset_bios(c, identity, fault) ==
    Return(systems_set(c, "reset_bios", identity, None, fault), 204, "")

\* /redfish/v1/Systems/<identity>/SecureBoot, GET and PATCH
secure_boot(c, method, identity, body, fault) ==
    IF method = "GET"
    THEN LET r == systems_get(c, "get_secure_boot", identity, fault)
         IN  IF ~Live(r) THEN r
             ELSE Render(r, "secure_boot.json",
                         [NoView EXCEPT !.secure = r.sys[identity].secure],
                         <<>>, NoLists)
    ELSE Return(systems_set(c, "set_secure_boot", identity,
                            body.SecureBootEnable, fault),
                204, "")

\* /redfish/v1/Systems/<identity>/SimpleStorage
simple_storage_collection(c, identity, fault) ==
    LET r == systems_get(c, "get_simple_storage_collection", identity, fault)
    IN  IF ~Live(r) THEN r
        ELSE Render(r, "simple_storage_collection.json",
                    [NoView EXCEPT !.item =
                        ToString(Cardinality(
                            get_simple_storage_collection(identity)))],
                    <<>>, NoLists)

\* /redfish/v1/Systems/<identity>/SimpleStorage/<simple_storage_id>: a
\* KeyError of the controllers dict is NotFound.
simple_storage(c, identity, simple_storage_id, fault) ==
    LET r == systems_get(c, "get_simple_storage_collection", identity, fault)
    IN  IF ~Live(r) THEN r
        ELSE IF simple_storage_id \in get_simple_storage_collection(identity)
             THEN Render(r, "simple_storage.json",
                         [NoView EXCEPT !.item = simple_storage_id], <<>>,
                         NoLists)
        ELSE Raise(r, NotFound)

\* /redfish/v1/Systems/<identity>/Storage
storage_collection(c, identity, fault) ==
    LET r == systems_get(c, "uuid", identity, fault)
    IN  IF ~Live(r) THEN r
        ELSE Render(r, "storage_collection.json", NoView,
                    get_storage_col(identity), NoLists)

\* /redfish/v1/Systems/<identity>/Storage/<storage_id>
storage(c, identity, storage_id, fault) ==
    LET r == systems_get(c, "uuid", identity, fault)
    IN  IF ~Live(r) THEN r
        ELSE find_item(r, "storage.json", get_storage_col(identity),
                       storage_id)

\* /redfish/v1/Systems/<identity>/Storage/<stg_id>/Drives/<drv_id>
drive_resource(c, identity, stg_id, drv_id, fault) ==
    LET r == systems_get(c, "uuid", identity, fault)
    IN  IF ~Live(r) THEN r
        ELSE find_item(r, "drive.json", get_drives(identity, stg_id), drv_id)

-----------------------------------------------------------------------------
(* Volumes: the side-table driver and the two volume routes.               *)

\* str(os.getpid()) of the serving process.
Pid == "4711"

\* datetime.now().strftime("%H%M%S") values a request may see: the clock
\* shows each of them once a day.
Times == {"235959", "000000"}

\* What find_or_create_storage_volume may return for a record: nothing, the
\* record's own Id, or another ID the backend knows the disk by.
FindReturns == {None, "Id", "pool-vol"}

ReturnedId(ret, vol) == IF ret = "Id" THEN vol.Id ELSE ret

\* list.remove(vol): drops the first element equal to vol.
RECURSIVE RemoveFirst(_, _)
RemoveFirst(col, vol) ==
    IF col = <<>> THEN <<>>
    ELSE IF Head(col) = vol THEN Tail(col)
    ELSE <<Head(col)>> \o RemoveFirst(Tail(col), vol)

\* app.volumes.get_volumes_col(uuid, storage_id)
get_volumes_col(vols, uuid, storage_id) == vols[<<uuid, storage_id>>]

\* app.volumes.add_volume(uuid, storage_id, vol)
add_volume(c, uuid, storage_id, vol) ==
    [c EXCEPT !.vols[<<uuid, storage_id>>] = Append(@, vol)]

\* app.volumes.delete_volume(uuid, storage_id, vol)
delete_volume(c, uuid, storage_id, vol) ==
    [c EXCEPT !.vols[<<uuid, storage_id>>] = RemoveFirst(@, vol)]

\* app.systems.find_or_create_storage_volume(vol): during one request the
\* backend answers rets[vol.Id] for the disk of the record `vol`, however
\* often and in whatever order it is asked; the call and its result are
\* logged.
find_or_create_storage_volume(c, vol, rets) ==
    LET vol_id == ReturnedId(rets[vol.Id], vol)
    IN  [c EXCEPT !.resolved = Append(@, [vol |-> vol, ret |-> vol_id])]

\* The result of the last find_or_create_storage_volume call.
LastReturn(c) == c.resolved[Len(c.resolved)].ret

\* The loop `for vol in vol_col` of the collection GET from position i on.
\* A Python list iterator walks the list object by index: when the driver
\* hands out its own list (aliased), delete_volume shifts the elements
\* under the iterator; when it hands out a copy, the copy `col` is walked.
RECURSIVE reconcile(_, _, _, _, _, _, _)
reconcile(c, uuid, storage_id, col, i, rets, aliased) ==
    LET walked == IF aliased THEN get_volumes_col(c.vols, uuid, storage_id)
                  ELSE col
    IN  IF i > Len(walked) THEN c
        ELSE LET vol == walked[i]
                 r == find_or_create_storage_volume(c, vol, rets)
                 vol_id == LastReturn(r)
             IN  IF ~Truthy(vol_id)
                 THEN reconcile(delete_volume(r, uuid, storage_id, vol),
                                uuid, storage_id, col, i + 1, rets, aliased)
                 ELSE reconcile([r EXCEPT !.members = Append(@, vol_id)],
                                uuid, storage_id, col, i + 1, rets, aliased)

\* The record a Volumes POST builds from the request body at time `now`.
NewVolume(body, now) ==
    [Name |-> body.Name, VolumeType |-> body.VolumeType,
     CapacityBytes |-> body.CapacityBytes, Id |-> Pid \o now,
     libvirtVolName |-> Pid \o now]

\* A faulty variant of volumes_collection: the POST records the volume
\* before it looks at what the driver returned.
volumes_collection_add_first(c, method, identity, storage_id, body, now, rets, aliased, fault) ==
    LET r == systems_get(c, "uuid", identity, fault)
    IN  IF ~Live(r) THEN r
        ELSE IF method = "GET"
        THEN LET done == reconcile(r, identity, storage_id,
                                   get_volumes_col(r.vols, identity,
                                                   storage_id),
                                   1, rets, aliased)
             IN  Render(done, "volume_collection.json", NoView, done.members,
                        NoLists)
        ELSE LET data == NewVolume(body, now)
                 f == add_volume(
                          find_or_create_storage_volume(r, data, rets),
                          identity, storage_id, data)
                 new_id == LastReturn(f)
             IN  IF Truthy(new_id)
                 THEN [f EXCEPT
                          !.st = 201,
                          !.content = "",
                          !.loc = <<"Systems", identity, "Storage", storage_id,
                                    "Volumes", new_id>>]
                 ELSE f

\* /redfish/v1/Systems/<identity>/Storage/<storage_id>/Volumes, GET and
\* POST.  A POST whose disk is not materialized falls off the end of the
\* handler: it returns None (st stays 0).
volumes_collection(c, method, identity, storage_id, body, now, rets, aliased, fault) ==
    LET r == systems_get(c, "uuid", identity, fault)
    IN  IF ~Live(r) THEN r
        ELSE IF method = "GET"
        THEN LET done == reconcile(r, identity, storage_id,
                                   get_volumes_col(r.vols, identity,
                                                   storage_id),
                                   1, rets, aliased)
             IN  Render(done, "volume_collection.json", NoView, done.members,
                        NoLists)
        ELSE LET data == NewVolume(body, now)
                 f == find_or_create_storage_volume(r, data, rets)
                 new_id == LastReturn(f)
             IN  IF Truthy(new_id)
                 THEN [add_volume(f, identity, storage_id, data) EXCEPT
                          !.st = 201,
                          !.content = "",
                          !.loc = <<"Systems", identity, "Storage", storage_id,
                                    "Volumes", new_id>>]
                 ELSE f

\* /redfish/v1/Systems/<identity>/Storage/<stg_id>/Volumes/<vol_id>.  After
\* the first record with the wanted Id the loop either returns or has set
\* vol_id to None, so no later record matches.
volume(c, identity, stg_id, vol_id, rets, fault) ==
    LET r == systems_get(c, "uuid", identity, fault)
    IN  IF ~Live(r) THEN r
        ELSE LET vol_col == get_volumes_col(r.vols, identity, stg_id)
             IN  IF ~\E i \in 1..Len(vol_col) : vol_col[i].Id = vol_id
                 THEN Raise(r, NotFound)
                 ELSE LET k == CHOOSE i \in 1..Len(vol_col) :
                                  /\ vol_col[i].Id = vol_id
                                  /\ \A j \in 1..(i - 1) :
                                        vol_col[j].Id # vol_id
                          vol == vol_col[k]
                          f == find_or_create_storage_volume(r, vol, rets)
                      IN  IF ~Truthy(LastReturn(f))
                          THEN Raise(delete_volume(f, identity, stg_id, vol),
                                     NotFound)
                          ELSE Render(f, "volume.json",
                                      [NoView EXCEPT !.item = vol.Id], <<>>,
                                      NoLists)

\* api_utils.returns_json on a handler that returned None: the decorator
\* builds the response from no contents; the status it ends with is not
\* fixed by main.py, so both a plain 200 and a server error are allowed.
NoneReturnStatuses == {200, 500}

-----------------------------------------------------------------------------
(* The state machine.                                                      *)

NoRequest ==
    [ep |-> "none", method |-> "none", args |-> [identity |-> None],
     body |-> NoBody, st |-> 0, loc |-> <<>>, content |-> None,
     exc |-> "none", members |-> <<>>, lists |-> NoLists, view |-> NoView,
     calls |-> <<>>, resolved |-> <<>>, unsupported |-> {}, changed |-> {}]

\* The volume side-table is persisted: the emulator starts with an empty
\* table or, in a deployment without allow-list, with the records two
\* earlier Volumes POSTs left for the first system.
StoredVolumes ==
    {<<>>} \cup
    (IF allowed.configured THEN {}
     ELSE {<<NewVolume(NoBody, "235959"), NewVolume(NoBody, "000000")>>})

\* The worker threads of the serving layer, all serving the one
\* module-level app object.
Threads == {"t1", "t2"}

\* The memoized properties of Application a handler reads.
Properties == {"systems", "indicators"}

\* app._cache before the first request: no dict object was created yet;
\* dict object 0 stands for the attribute memoize creates on first use.
NoCache == [current |-> 0, next |-> 1, dicts |-> <<<<>>>>]

\* A worker thread between two requests.
Idle ==
    [pc |-> "idle", n |-> 0, held |-> 0, prop |-> "systems", reads |-> 0,
     stored |-> {}, served |-> {}]

\* The Ids of the records a volume side-table can hold.
RecordIds == { Pid \o now : now \in Times }

\* A worker thread with no volume request.
NoJob ==
    [kind |-> "none", pc |-> "idle", now |-> None, wanted |-> None,
     aliased |-> FALSE, col |-> <<>>, i |-> 1,
     vol |-> NewVolume(NoBody, ""), ret |-> None, st |-> 0, exc |-> "none"]

\* No volume request on any thread: rets is what the backend answers for
\* each record's disk, start the table the requests began with, deletes the
\* delete_volume calls made.
NoJobs ==
    [rets |-> [id \in RecordIds |-> "Id"], start |-> <<>>, deletes |-> <<>>,
     of |-> [t \in Threads |-> NoJob]]

Init ==
    /\ allowed \in AllowLists
    /\ sys = [u \in SystemUuids |-> InitialSystem]
    /\ indicators = [k \in IndicatorKeys |-> None]
    /\ \E stored \in StoredVolumes :
          volumes = [k \in SystemUuids \X StorageIds |->
                        IF k = <<systems[1], "s1">> THEN stored ELSE <<>>]
    /\ served = 0
    /\ last = NoRequest
    /\ cache = NoCache
    /\ workers = [t \in Threads |-> Idle]
    /\ jobs = NoJobs

\* One request served: the state the run left behind is kept (also when an
\* exception escaped), and the request and its response are recorded, with
\* the driver calls made and the parts of the state the request changed.
Serve(ep, method, args, body, run, none_status) ==
    LET out == Respond(ep, run, none_status)
        ok == out.exc = "none" /\ run.st # 0
    IN  /\ served < MaxRequests
        /\ served' = served + 1
        /\ sys' = run.sys
        /\ indicators' = run.ind
        /\ volumes' = run.vols
        /\ last' = [ep |-> ep, method |-> method, args |-> args,
                    body |-> body, st |-> out.st, loc |-> out.loc,
                    content |-> out.content, exc |-> out.exc,
                    members |-> IF ok THEN run.members ELSE <<>>,
                    lists |-> IF ok THEN run.lists ELSE NoLists,
                    view |-> IF ok THEN run.view ELSE NoView,
                    calls |-> run.calls, resolved |-> run.resolved,
                    unsupported |-> run.unsupported,
                    changed |->
                        (IF run.sys # sys THEN {"sys"} ELSE {}) \cup
                        (IF run.ind # indicators THEN {"indicators"}
                         ELSE {}) \cup
                        (IF run.vols # volumes THEN {"volumes"} ELSE {})]
        /\ UNCHANGED <<allowed, cache, workers, jobs>>

\* The driver calls whose backend may raise during a request: a fault is
\* drawn only for a request that reaches the backend of an instance.
Faults(identity, fns) ==
    IF identity \in SystemUuids /\ ~instance_denied(identity)
    THEN {"none"} \cup fns
    ELSE {"none"}

\* The driver setters a handler run invoked.
SettersOf(run) == { run.calls[i].fn : i \in 1..Len(run.calls) }

\* Request bodies of the model.
LedBodies == {None, "Lit"}

BootBodies ==
    {NoBoot, [NoBoot EXCEPT !.present = TRUE, !.other = TRUE]} \cup
    { [present |-> TRUE, other |-> FALSE, BootSourceOverrideTarget |-> t,
       BootSourceOverrideMode |-> m] :
        t \in {None, "Cd"}, m \in {None, "UEFI"} }

Req_chassis_resource ==
    \/ \E identity \in ChassisIdentities :
        Serve("chassis_resource", "GET", [identity |-> identity], NoBody,
              chassis_resource(Start, "GET", identity, NoBody, "none"), 200)
    \/ \E identity \in ChassisIdentities, led \in LedBodies,
          fault \in {"none", "set_indicator_state"} :
        LET body == [NoBody EXCEPT !.IndicatorLED = led]
        IN  Serve("chassis_resource", "PATCH", [identity |-> identity], body,
                  chassis_resource(Start, "PATCH", identity, body, fault),
                  200)

Req_thermal_resource ==
    \E identity \in ChassisIdentities :
        Serve("thermal_resource", "GET", [identity |-> identity], NoBody,
              thermal_resource(Start, identity), 200)

Req_manager_collection_resource ==
    Serve("manager_collection_resource", "GET", [identity |-> None], NoBody,
          manager_collection_resource(Start), 200)

Req_manager_resource ==
    \E identity \in ManagerIdentities :
        Serve("manager_resource", "GET", [identity |-> identity], NoBody,
              manager_resource(Start, identity), 200)

Req_system_collection_resource ==
    Serve("system_collection_resource", "GET", [identity |-> None], NoBody,
          system_collection_resource(Start), 200)

\* The getters system_resource calls to build a GET response.
SystemGetters ==
    {"get_power_state", "get_total_memory", "get_total_cpus",
     "get_boot_device", "get_boot_mode"}

Req_system_resource ==
    \/ \E identity \in Identities :
       \E fault \in Faults(identity,
                  {"get_power_state", Coded("get_power_state")} \cup
                  { Unsupported(fn) : fn \in SystemGetters }) :
        Serve("system_resource", "GET", [identity |-> identity], NoBody,
              ensure_instance_access(identity,
                  system_resource(Start, "GET", identity, NoBody, fault)),
              200)
    \/ \E identity \in Identities, boot \in BootBodies, led \in LedBodies :
        LET body == [NoBody EXCEPT !.Boot = boot, !.IndicatorLED = led]
        IN  \E fault \in Faults(identity,
                    SettersOf(system_resource(Start, "PATCH", identity, body,
                                              "none"))) :
            Serve("system_resource", "PATCH", [identity |-> identity], body,
                  ensure_instance_access(identity,
                      system_resource(Start, "PATCH", identity, body, fault)),
                  200)

Req_ethernet_interfaces_collection ==
    \E identity \in Identities :
      \E fault \in Faults(identity, {Unsupported("get_nics")}) :
        Serve("ethernet_interfaces_collection", "GET",
              [identity |-> identity], NoBody,
              ensure_instance_access(identity,
                  ethernet_interfaces_collection(Start, identity, fault)),
              200)

\* The identities of sub-resource lookups: also the second system, whose
\* inventory lists are empty.
InventoryIdentities == Identities \cup {systems[2]}

Req_ethernet_interface ==
    \E identity \in InventoryIdentities, nic_id \in {"nic2", "nic3"} :
        Serve("ethernet_interface", "GET",
              [identity |-> identity, nic_id |-> nic_id], NoBody,
              ensure_instance_access(identity,
                  ethernet_interface(Start, identity, nic_id, "none")),
              200)

Req_processors_collection ==
    \E identity \in Identities :
        Serve("processors_collection", "GET", [identity |-> identity], NoBody,
              ensure_instance_access(identity,
                  processors_collection(Start, identity, "none")),
              200)

Req_processor ==
    \E identity \in InventoryIdentities, processor_id \in {"CPU0", "CPU9"} :
        Serve("processor", "GET",
              [identity |-> identity, processor_id |-> processor_id], NoBody,
              ensure_instance_access(identity,
                  processor(Start, identity, processor_id, "none")),
              200)

Req_system_reset_action ==
    \E identity \in Identities, reset_type \in ResetTypes \cup {None} :
      \E fault \in Faults(identity, {"set_power_state"}) :
        LET body == [NoBody EXCEPT !.ResetType = reset_type]
        IN  Serve("system_reset_action", "POST", [identity |-> identity],
                  body,
                  ensure_instance_access(identity,
                      system_reset_action(Start, identity, body, fault)),
                  200)

Req_bios ==
    \E identity \in Identities :
      \E fault \in Faults(identity, {Unsupported("get_bios")}) :
        Serve("bios", "GET", [identity |-> identity], NoBody,
              ensure_instance_access(identity, bios(Start, identity, fault)),
              200)

Req_bios_settings ==
    \/ \E identity \in Identities :
        Serve("bios_settings", "GET", [identity |-> identity], NoBody,
              ensure_instance_access(identity,
                  bios_settings(Start, "GET", identity, NoBody, "none")),
              200)
    \/ \E identity \in Identities, attributes \in {None, "attrs"} :
       \E fault \in Faults(identity, {"set_bios"}) :
        LET body == [NoBody EXCEPT !.Attributes = attributes]
        IN  Serve("bios_settings", "PATCH", [identity |-> identity], body,
                  ensure_instance_access(identity,
                      bios_settings(Start, "PATCH", identity, body, fault)),
                  200)

Req_system_reset_bios ==
    \E identity \in Identities :
      \E fault \in Faults(identity, {"reset_bios"}) :
        Serve("system_reset_bios", "POST", [identity |-> identity], NoBody,
              ensure_instance_access(identity,
                  system_reset_bios(Start, identity, fault)),
              200)

Req_secure_boot ==
    \/ \E identity \in Identities :
       \E fault \in Faults(identity, {Unsupported("get_secure_boot")}) :
        Serve("secure_boot", "GET", [identity |-> identity], NoBody,
              ensure_instance_access(identity,
                  secure_boot(Start, "GET", identity, NoBody, fault)),
              200)
    \/ \E identity \in Identities, secure \in {None, "True", "False"} :
       \E fault \in Faults(identity, {"set_secure_boot"}) :
        LET body == [NoBody EXCEPT !.SecureBootEnable = secure]
        IN  Serve("secure_boot", "PATCH", [identity |-> identity], body,
                  ensure_instance_access(identity,
                      secure_boot(Start, "PATCH", identity, body, fault)),
                  200)

Req_simple_storage_collection ==
    \E identity \in Identities :
        Serve("simple_storage_collection", "GET", [identity |-> identity],
              NoBody,
              ensure_instance_access(identity,
                  simple_storage_collection(Start, identity, "none")),
              200)

Req_simple_storage ==
    \E identity \in InventoryIdentities, simple_storage_id \in {"IDE", "SCSI"} :
        Serve("simple_storage", "GET",
              [identity |-> identity,
               simple_storage_id |-> simple_storage_id],
              NoBody,
              ensure_instance_access(identity,
                  simple_storage(Start, identity, simple_storage_id, "none")),
              200)

Req_storage_collection ==
    \E identity \in Identities :
        Serve("storage_collection", "GET", [identity |-> identity], NoBody,
              ensure_instance_access(identity,
                  storage_collection(Start, identity, "none")),
              200)

Req_storage ==
    \E identity \in InventoryIdentities, storage_id \in {"s1", "s9"} :
        Serve("storage", "GET",
              [identity |-> identity, storage_id |-> storage_id], NoBody,
              ensure_instance_access(identity,
                  storage(Start, identity, storage_id, "none")),
              200)

Req_drive_resource ==
    \E identity \in InventoryIdentities, stg_id \in {"s1"}, drv_id \in {"d1", "d9"} :
        Serve("drive_resource", "GET",
              [identity |-> identity, stg_id |-> stg_id, drv_id |-> drv_id],
              NoBody,
              ensure_instance_access(identity,
                  drive_resource(Start, identity, stg_id, drv_id, "none")),
              200)

\* The body of a Volumes POST.
VolumeBody ==
    [NoBody EXCEPT !.Name = "vol", !.VolumeType = "Mirrored",
                   !.CapacityBytes = "1024"]

\* The records find_or_create_storage_volume can be asked about during a
\* request, by Id: none when the request does not reach the handler's loop,
\* else the records of the table, the new record, or the record wanted.
CallsOfGet(identity, storage_id) ==
    IF identity \in SystemUuids /\ ~instance_denied(identity)
    THEN { volumes[<<identity, storage_id>>][i].Id :
              i \in 1..Len(volumes[<<identity, storage_id>>]) }
    ELSE {}

CallsOfPost(identity, now) ==
    IF identity \in SystemUuids /\ ~instance_denied(identity)
    THEN {Pid \o now} ELSE {}

CallsOfVolume(identity, stg_id, vol_id) ==
    CallsOfGet(identity, stg_id) \cap {vol_id}

\* Whether get_volumes_col hands out the driver's own list or a copy; the
\* two differ only for a loop over more than one record.
Aliasing(identity, storage_id) ==
    IF Cardinality(CallsOfGet(identity, storage_id)) > 1
    THEN BOOLEAN ELSE {FALSE}

Req_volumes_collection ==
    \/ \E identity \in Identities, storage_id \in StorageIds :
        \E rets \in [CallsOfGet(identity, storage_id) -> FindReturns],
           aliased \in Aliasing(identity, storage_id) :
            Serve("volumes_collection", "GET",
                  [identity |-> identity, storage_id |-> storage_id], NoBody,
                  ensure_instance_access(identity,
                      volumes_collection(Start, "GET", identity, storage_id,
                                         NoBody, None, rets, aliased,
                                         "none")),
                  200)
    \/ \E identity \in Identities, storage_id \in StorageIds, now \in Times,
          none_status \in NoneReturnStatuses :
        \E rets \in [CallsOfPost(identity, now) -> FindReturns] :
            /\ (\A i \in DOMAIN rets : Truthy(rets[i])) => none_status = 200
            /\ Serve("volumes_collection", "POST",
                     [identity |-> identity, storage_id |-> storage_id],
                     VolumeBody,
                     ensure_instance_access(identity,
                         volumes_collection(Start, "POST", identity,
                                            storage_id, VolumeBody, now, rets,
                                            FALSE, "none")),
                     none_status)

\* The volume IDs a client may ask for.
VolumeIds == { Pid \o t : t \in Times } \cup {"pool-vol"}

Req_volume ==
    \E identity \in Identities, stg_id \in StorageIds, vol_id \in VolumeIds :
      \E rets \in [CallsOfVolume(identity, stg_id, vol_id) -> FindReturns] :
        Serve("volume", "GET",
              [identity |-> identity, stg_id |-> stg_id, vol_id |-> vol_id],
              NoBody,
              ensure_instance_access(identity,
                  volume(Start, identity, stg_id, vol_id, rets, "none")),
              200)

Next ==
    \/ Req_chassis_resource
    \/ Req_thermal_resource
    \/ Req_manager_collection_resource
    \/ Req_manager_resource
    \/ Req_system_collection_resource
    \/ Req_system_resource
    \/ Req_ethernet_interfaces_collection
    \/ Req_ethernet_interface
    \/ Req_processors_collection
    \/ Req_processor
    \/ Req_system_reset_action
    \/ Req_bios
    \/ Req_bios_settings
    \/ Req_system_reset_bios
    \/ Req_secure_boot
    \/ Req_simple_storage_collection
    \/ Req_simple_storage
    \/ Req_storage_collection
    \/ Req_storage
    \/ Req_drive_resource
    \/ Req_volumes_collection
    \/ Req_volume

Spec == Init /\ [][Next]_vars

-----------------------------------------------------------------------------
(* Properties.                                                             *)

\* The last request addressed a per-instance route with this identity.
PerInstance == last.ep \in PerInstanceEndpoints

\* The identity names an instance of the backend that the gate lets through.
Visible(identity) ==
    identity \in SystemUuids /\ ~instance_denied(identity)

\* The endpoints whose response lists systems.
ListingEndpoints ==
    {"system_collection_resource", "chassis_resource", "thermal_resource",
     "manager_resource"}

\* C1: with an allow-list configured, every per-instance endpoint answers
\* 404 for a UUID outside the list, and such a UUID appears in no listing
\* (Systems collection, contained systems of a Chassis, Thermal,
\* ManagerForServers of a Manager).
C1_DeniedInstancesHidden ==
    allowed.configured =>
        \A u \in SystemUuids \ allowed.members :
            /\ (PerInstance /\ last.args.identity = u) => last.st = 404
            /\ last.ep \in ListingEndpoints =>
                  \A i \in 1..Len(last.members) : last.members[i] # u

\* C2: instance_denied never denies when no allow-list option is
\* configured, and with the option configured (also as an empty collection)
\* denies exactly the identities that are not members.  Seen through the
\* Systems collection, which lists exactly the systems not denied, and
\* through GET of an existing system, which is 404 exactly when denied.
C2_InstanceDeniedDecision ==
    /\ \A i \in Identities \cup SystemUuids :
          instance_denied(i) <=>
              (allowed.configured /\ i \notin allowed.members)
    /\ last.ep = "system_collection_resource" =>
          last.members =
              SelectSeq(systems,
                        LAMBDA u : ~allowed.configured
                                   \/ u \in allowed.members)
    /\ (/\ last.ep = "system_resource"
        /\ last.method = "GET"
        /\ last.args.identity \in SystemUuids
        /\ last.exc # "Exception")
       => (last.st = 404 <=>
              (allowed.configured
               /\ last.args.identity \notin allowed.members))

\* C2 witness: with the option configured as an empty collection the
\* Systems collection was served and lists nothing.
C2_Witness ==
    /\ last.ep = "system_collection_resource"
    /\ allowed.configured
    /\ allowed.members = {}
    /\ last.st = 200
    /\ last.members = <<>>

\* C3: a request addressed by an alias of UUID U is answered 307 with
\* Location equal to the request path with the identity segment replaced by
\* U and every other segment kept, and it changes nothing in the backend or
\* the side-tables.  Stated for the requests the gate lets through and that
\* are not rejected as malformed (400).
C3_AliasRedirected ==
    (/\ PerInstance
     /\ last.args.identity \in DOMAIN AliasOf
     /\ ~instance_denied(last.args.identity)
     /\ last.st # 400)
    => /\ last.st = 307
       /\ last.loc =
             PathOf(last.ep,
                    [last.args EXCEPT !.identity = AliasOf[@]])
       /\ last.changed = {}

\* C4: on every per-instance endpoint and method, a request whose identity
\* is neither a UUID nor an alias of a backend instance is answered 404,
\* whatever its body is.
C4_UnknownIdentityNotFound ==
    (/\ PerInstance
     /\ last.args.identity \notin SystemUuids \cup DOMAIN AliasOf)
    => last.st = 404

\* The resources that accept PATCH.
PatchEndpoints ==
    {"system_resource", "chassis_resource", "bios_settings", "secure_boot"}

\* The last request was a PATCH of an existing resource the gate lets
\* through.
PatchOfExisting ==
    /\ last.method = "PATCH"
    /\ last.ep \in PatchEndpoints
    /\ IF last.ep = "chassis_resource"
       THEN last.args.identity \in Range(chassis_list)
       ELSE Visible(last.args.identity)

\* The body holds none of the fields the resource recognizes.
NoRecognizedField(ep, body) ==
    CASE ep = "system_resource" ->
            /\ body.Boot.BootSourceOverrideTarget = None
            /\ body.Boot.BootSourceOverrideMode = None
            /\ body.IndicatorLED = None
      [] ep = "chassis_resource" -> body.IndicatorLED = None
      [] ep = "bios_settings" -> body.Attributes = None
      [] ep = "secure_boot" -> body.SecureBootEnable = None

\* C5: a PATCH of an existing visible System, Chassis, BIOS Settings or
\* SecureBoot resource whose body holds none of the resource's recognized
\* fields is answered 400 and invokes no backend setter.
C5_UnrecognizedPatchRejected ==
    (PatchOfExisting /\ NoRecognizedField(last.ep, last.body))
    => /\ last.st = 400
       /\ last.calls = <<>>

\* C6: a System PATCH holding at least one recognized field is answered 204
\* with an empty body and every recognized field of the body is applied,
\* whatever else the body holds.  Stated for requests during which no
\* backend call raised.
C6_RecognizedFieldApplied ==
    (/\ PatchOfExisting
     /\ last.ep = "system_resource"
     /\ ~NoRecognizedField(last.ep, last.body)
     /\ last.exc # "Exception")
    => LET u == last.args.identity
           boot == last.body.Boot
       IN  /\ last.st = 204
           /\ last.content = ""
           /\ boot.BootSourceOverrideTarget # None =>
                 sys[u].boot = boot.BootSourceOverrideTarget
           /\ boot.BootSourceOverrideMode # None =>
                 sys[u].mode = boot.BootSourceOverrideMode
           /\ last.body.IndicatorLED # None =>
                 indicators[u] = last.body.IndicatorLED

\* The run of the last PATCH issued once more on the state it left.
PatchAgain ==
    LET id == last.args.identity
    IN  CASE last.ep = "system_resource" ->
                ensure_instance_access(id,
                    system_resource(Start, "PATCH", id, last.body, "none"))
          [] last.ep = "chassis_resource" ->
                chassis_resource(Start, "PATCH", id, last.body, "none")
          [] last.ep = "bios_settings" ->
                ensure_instance_access(id,
                    bios_settings(Start, "PATCH", id, last.body, "none"))
          [] last.ep = "secure_boot" ->
                ensure_instance_access(id,
                    secure_boot(Start, "PATCH", id, last.body, "none"))

\* C7: PATCH is idempotent.  After a System, Chassis, BIOS Settings or
\* SecureBoot PATCH answered 204, the same PATCH issued again on the same
\* instance is answered 204 and leaves the state GET reports (boot device,
\* boot mode, indicator, BIOS attributes, secure boot) as the first one
\* left it.
C7_PatchIdempotent ==
    (last.method = "PATCH" /\ last.ep \in PatchEndpoints /\ last.st = 204)
    => /\ Respond(last.ep, PatchAgain, 200).st = 204
       /\ PatchAgain.sys = sys
       /\ PatchAgain.ind = indicators

\* C7 witness: a Chassis PATCH that sets the indicator was served a second
\* time: it was answered 204 and found nothing left to change.
C7_Witness ==
    /\ served = 2
    /\ last.ep = "chassis_resource"
    /\ last.method = "PATCH"
    /\ last.body.IndicatorLED = "Lit"
    /\ last.st = 204
    /\ last.changed = {}
    /\ indicators[last.args.identity] = "Lit"

\* C8: a Reset POST on a visible instance with one of the seven ResetType
\* values invokes set_power_state exactly once, with the request's identity
\* and exactly that value, and is answered 204 with an empty body when the
\* backend call returns.
C8_ResetInvokesPowerState ==
    (/\ last.ep = "system_reset_action"
     /\ Visible(last.args.identity)
     /\ last.body.ResetType \in ResetTypes)
    => /\ last.calls =
             <<[fn |-> "set_power_state", id |-> last.args.identity,
                val |-> last.body.ResetType]>>
       /\ last.exc # "Exception" => last.st = 204 /\ last.content = ""

\* C8 witness: a GracefulShutdown reset of a visible instance was answered
\* 204 after one driver call.
C8_Witness ==
    /\ last.ep = "system_reset_action"
    /\ Visible(last.args.identity)
    /\ last.body.ResetType = "GracefulShutdown"
    /\ Len(last.calls) = 1
    /\ last.st = 204

\* The last request was a Volumes POST that reached the driver.
VolumePosted ==
    /\ last.ep = "volumes_collection"
    /\ last.method = "POST"
    /\ Len(last.resolved) = 1

\* GET of Volumes/<vol_id> on the state the last request left, when the
\* backend answers `ret` for the record it is asked about.
FollowingVolumeGet(vol_id, ret) ==
    LET id == last.args.identity
    IN  Respond("volume",
                ensure_instance_access(id,
                    volume(Start, id, last.args.storage_id, vol_id,
                           [v \in {vol_id} |-> ret], "none")),
                200)

\* C9: after a Volumes POST that materialized the disk the response is 201
\* and the last segment of its Location is a volume ID whose GET, issued
\* next, returns 200 whenever the backend still resolves the disk, whatever
\* ID find_or_create_storage_volume returned to the POST.
C9_CreatedVolumeResolvable ==
    (VolumePosted /\ Truthy(last.resolved[1].ret))
    => /\ last.st = 201
       /\ Len(last.loc) > 0
       /\ \A ret \in FindReturns \ {None} :
             FollowingVolumeGet(last.loc[Len(last.loc)], ret).st = 200

\* The IDs a Volumes collection GET lists on the current state when the
\* backend resolves every record by the record's own Id.
ListedNow(uuid, storage_id) ==
    reconcile(Start, uuid, storage_id,
              get_volumes_col(volumes, uuid, storage_id), 1,
              [v \in CallsOfGet(uuid, storage_id) |-> "Id"],
              FALSE).members

\* C10: a Volumes POST whose disk is not materialized answers without a
\* Location header, adds no record to the volume side-table, and adds
\* nothing to what a later GET of the collection lists: every ID that GET
\* lists is the Id of a record the side-table held before the POST.
C10_FailedVolumeLeavesNoTrace ==
    (VolumePosted /\ ~Truthy(last.resolved[1].ret))
    => LET uuid == last.args.identity
           sid == last.args.storage_id
       IN  /\ last.loc = <<>>
           /\ last.st # 201
           /\ "volumes" \notin last.changed
           /\ \A i \in 1..Len(ListedNow(uuid, sid)) :
                 \E j \in 1..Len(volumes[<<uuid, sid>>]) :
                    volumes[<<uuid, sid>>][j].Id = ListedNow(uuid, sid)[i]

\* C10 witness: a Volumes POST failed to materialize its disk while the
\* side-table already held a record.
C10_Witness ==
    /\ VolumePosted
    /\ ~Truthy(last.resolved[1].ret)
    /\ Len(volumes[<<last.args.identity, last.args.storage_id>>]) = 1
    /\ last.loc = <<>>

\* The table of the (UUID, storage-id) pair the last request addressed.
TableOfLast ==
    volumes[<<last.args.identity,
              IF last.ep = "volume" THEN last.args.stg_id
              ELSE last.args.storage_id>>]

\* The IDs the backend resolved during the last request, in call order.
RECURSIVE ResolvedIds(_)
ResolvedIds(log) ==
    IF log = <<>> THEN <<>>
    ELSE (IF Truthy(Head(log).ret) THEN <<Head(log).ret>> ELSE <<>>)
         \o ResolvedIds(Tail(log))

\* C11: after a GET of the Volumes collection, every record left in the
\* side-table is one the backend resolved to a live disk during that GET
\* (every other record has been deleted), every record it resolved is still
\* in the side-table, and the response lists exactly the IDs of the resolved
\* records, also when several adjacent records are stale.  A GET of a single
\* stale volume deletes a record and answers 404.
C11_ReadReconcilesVolumes ==
    /\ (/\ last.ep = "volumes_collection"
        /\ last.method = "GET"
        /\ Visible(last.args.identity))
       => /\ last.st = 200
          /\ \A i \in 1..Len(TableOfLast) :
                \E j \in 1..Len(last.resolved) :
                   /\ last.resolved[j].vol = TableOfLast[i]
                   /\ Truthy(last.resolved[j].ret)
          /\ \A j \in 1..Len(last.resolved) :
                Truthy(last.resolved[j].ret) =>
                   \E i \in 1..Len(TableOfLast) :
                      TableOfLast[i] = last.resolved[j].vol
          /\ last.members = ResolvedIds(last.resolved)
    /\ (/\ last.ep = "volume"
        /\ Len(last.resolved) = 1
        /\ ~Truthy(last.resolved[1].ret))
       => /\ last.st = 404
          /\ "volumes" \in last.changed

\* C12: a capability the backend does not support never becomes an error
\* response: when a getter used to build a GET response raised
\* NotSupportedError, the GET is answered 200 and no exception reaches the
\* error handler.
C12_UnsupportedNeverAnError ==
    (/\ last.method = "GET"
     /\ Visible(last.args.identity)
     /\ last.unsupported # {})
    => /\ last.st = 200
       /\ last.exc = "none"
       /\ "get_total_memory" \in last.unsupported => last.view.memory = None
       /\ "get_total_cpus" \in last.unsupported => last.view.cpus = None
       /\ "get_boot_mode" \in last.unsupported => last.view.mode = None
       /\ "get_boot_device" \in last.unsupported => last.view.boot = None
       /\ "get_power_state" \in last.unsupported => last.view.power = None

\* C13: an exception raised by a backend driver call that is none of the
\* emulator's own error kinds and no HTTP exception is answered 500,
\* whatever attributes its object carries; NotFound is answered 404.
C13_BackendExceptionIs500 ==
    /\ last.exc = "Exception" => last.st = 500
    /\ last.exc = "NotFound" => last.st = 404

\* The response to a request the gate rejected before anything ran.
GateResponse(ep, identity) ==
    Respond(ep, ensure_instance_access(identity, Start), 200)

\* C14: the response to a per-instance request for an existing instance
\* that the allow-list denies is 404 and equals, in status, body and
\* headers, the response to the same request for an identity that exists
\* in no backend; neither request calls a driver or changes anything.
C14_DeniedLooksLikeMissing ==
    (/\ PerInstance
     /\ allowed.configured
     /\ instance_denied(last.args.identity))
    => /\ last.st = 404
       /\ last.st = GateResponse(last.ep, "zz").st
       /\ last.content = GateResponse(last.ep, "zz").content
       /\ last.loc = GateResponse(last.ep, "zz").loc
       /\ last.calls = <<>>
       /\ last.changed = {}

\* C14 witness: a PATCH of an existing system the allow-list denies was
\* answered 404.
C14_Witness ==
    /\ last.ep = "system_resource"
    /\ last.method = "PATCH"
    /\ last.args.identity \in SystemUuids
    /\ instance_denied(last.args.identity)
    /\ last.body.IndicatorLED = "Lit"
    /\ last.st = 404

\* GET of Systems/<identity> issued next, with no backend fault.
NextSystemGet(identity) ==
    ensure_instance_access(identity,
        system_resource(Start, "GET", identity, NoBody, "none"))

\* The identities that resolve to the UUID.
IdentitiesOf(uuid) ==
    {uuid} \cup { a \in DOMAIN AliasOf : AliasOf[a] = uuid }

C16_StarTopology ==
    LET first == last.args.identity = chassis_list[1]
    IN  /\ (/\ last.ep = "chassis_resource"
            /\ last.method = "GET"
            /\ last.st = 200)
           => /\ last.members = (IF first THEN systems ELSE <<>>)
              /\ last.lists.managers =
                    (IF first THEN managers_list ELSE <<>>)
              /\ last.lists.storage =
                    (IF first THEN get_all_storage ELSE <<>>)
              /\ last.lists.drives = (IF first THEN get_all_drives ELSE <<>>)
              /\ last.lists.chassis = <<>>
        /\ (last.ep = "thermal_resource" /\ last.st = 200)
           => last.members = (IF first THEN systems ELSE <<>>)

\* C16 witness: the Thermal resource of a chassis that is not the first
\* one was served with no systems.
C16_Witness ==
    /\ last.ep = "thermal_resource"
    /\ last.args.identity = chassis_list[2]
    /\ last.st = 200
    /\ last.members = <<>>

\* The backend's list for the sub-resource lookup of the last request, as
\* the set of its element IDs, and the ID the request asked for.
InventoryOfLast ==
    LET u == last.args.identity
    IN  CASE last.ep = "ethernet_interface" -> Range(get_nics(u))
          [] last.ep = "processor" -> Range(get_processors(u))
          [] last.ep = "simple_storage" -> get_simple_storage_collection(u)
          [] last.ep = "storage" -> Range(get_storage_col(u))
          [] last.ep = "drive_resource" ->
                Range(get_drives(u, last.args.stg_id))

WantedOfLast ==
    CASE last.ep = "ethernet_interface" -> last.args.nic_id
      [] last.ep = "processor" -> last.args.processor_id
      [] last.ep = "simple_storage" -> last.args.simple_storage_id
      [] last.ep = "storage" -> last.args.storage_id
      [] last.ep = "drive_resource" -> last.args.drv_id

LookupEndpoints ==
    {"ethernet_interface", "processor", "simple_storage", "storage",
     "drive_resource"}

\* C17: a sub-resource lookup (EthernetInterfaces, Processors,
\* SimpleStorage, Storage, Drives) on a visible instance is answered 200
\* with the matching element exactly when the backend's list for that
\* instance holds an element with the ID asked for, and 404 otherwise,
\* also when the list is empty.
C17_SubResourceLookup ==
    (last.ep \in LookupEndpoints /\ Visible(last.args.identity))
    => IF WantedOfLast \in InventoryOfLast
       THEN last.st = 200 /\ last.view.item = WantedOfLast
       ELSE last.st = 404

\* C17 witness: nic3 was asked of a system that has nic1 and nic2 only, and
\* the answer was 404.
C17_Witness ==
    /\ last.ep = "ethernet_interface"
    /\ Visible(last.args.identity)
    /\ last.args.nic_id = "nic3"
    /\ InventoryOfLast = {"nic1", "nic2"}
    /\ last.st = 404

C19_AllowListKeyedOnUuid ==
    (/\ PerInstance
     /\ allowed.configured
     /\ last.args.identity \in DOMAIN AliasOf)
    => LET u == AliasOf[last.args.identity]
       IN  /\ instance_denied(last.args.identity) <=> instance_denied(u)
           /\ u \in allowed.members => last.st # 404
           /\ u \notin allowed.members => last.st = 404

\* The last request was a System PATCH during which a driver setter
\* raised; the failing call is the last one logged.
PatchFailed ==
    /\ last.ep = "system_resource"
    /\ last.method = "PATCH"
    /\ Visible(last.args.identity)
    /\ last.exc = "Exception"
    /\ last.calls # <<>>

FailedSetter == last.calls[Len(last.calls)].fn

\* C20: a multi-field System PATCH applies its fields independently and
\* without rollback.  When a setter fails the answer is an error status;
\* when set_boot_mode fails after set_boot_device succeeded the boot device
\* stays at the new target; and every other recognized field of the body
\* is applied although one failed.
C20_FieldsApplyIndependently ==
    PatchFailed
    => LET u == last.args.identity
           boot == last.body.Boot
       IN  /\ last.st >= 400
           /\ (boot.BootSourceOverrideTarget # None
               /\ FailedSetter # "set_boot_device")
              => sys[u].boot = boot.BootSourceOverrideTarget
           /\ (boot.BootSourceOverrideMode # None
               /\ FailedSetter # "set_boot_mode")
              => sys[u].mode = boot.BootSourceOverrideMode
           /\ (last.body.IndicatorLED # None
               /\ FailedSetter # "set_indicator_state")
              => indicators[u] = last.body.IndicatorLED

\* The last request was a PATCH or POST on an instance route (or a Chassis
\* PATCH) that was answered 400 or 404.
RejectedWrite ==
    /\ last.method \in {"PATCH", "POST"}
    /\ PerInstance \/ last.ep = "chassis_resource"
    /\ last.st \in {400, 404}

\* C23 as stated: a PATCH or POST answered 400 or 404 has invoked no
\* backend setter and has left the indicator and volume side-tables
\* unchanged.
C23_RejectedInvokesNothing ==
    RejectedWrite
    => /\ last.calls = <<>>
       /\ "indicators" \notin last.changed
       /\ "volumes" \notin last.changed

\* The part of C23 the handlers keep: a PATCH or POST answered 400 or 404
\* has changed nothing (backend state, indicator and volume side-tables);
\* when it was answered 400 or rejected by the allow-list it has invoked no
\* backend setter, and a setter it invoked otherwise was given an identity
\* that names no instance.
C23_RejectedChangesNothing ==
    RejectedWrite
    => /\ last.changed = {}
       /\ (last.st = 400 \/ (PerInstance /\ instance_denied(last.args.identity)))
          => last.calls = <<>>
       /\ \A i \in 1..Len(last.calls) :
             /\ last.calls[i].id \notin SystemUuids
             /\ last.calls[i].id \notin DOMAIN AliasOf

\* A Reset POST for an identity that names no instance went to
\* set_power_state and was answered 404.
RejectedAfterSetter ==
    /\ last.ep = "system_reset_action"
    /\ last.args.identity = "zz"
    /\ last.st = 404
    /\ Len(last.calls) = 1

\* All records of the volume side-table, whatever key they are under.
RECURSIVE AllRecords(_)
AllRecords(keys) ==
    IF keys = {} THEN <<>>
    ELSE LET k == CHOOSE x \in keys : TRUE
         IN  volumes[k] \o AllRecords(keys \ {k})

\* C24: volume IDs are unique.  The records successful Volumes POSTs of one
\* process left in the side-table, on whatever systems and storages and at
\* whatever interval, carry pairwise different Ids.
C24_VolumeIdsUnique ==
    LET records == AllRecords(DOMAIN volumes)
    IN  \A i, j \in 1..Len(records) :
           i # j => records[i].Id # records[j].Id

-------------------
\* Worker threads and the descriptor cache.  Every thread serves requests of
\* the same app object; a request is reset_cache followed by the handler's
\* reads of memoized properties, one step per access to app._cache.

\* The request a thread has in flight.
RequestOf(t) == <<t, workers[t].n>>

\* The dict object app._cache is bound to.
CurrentDict == cache.dicts[cache.current + 1]

\* before_request: reset_cache binds a new empty dict to app._cache
BeginRequest(t) ==
    /\ workers[t].pc = "idle"
    /\ workers[t].n < MaxHandled
    /\ cache' = [current |-> cache.next, next |-> cache.next + 1,
                 dicts |-> Append(cache.dicts, <<>>)]
    /\ workers' = [workers EXCEPT ![t] =
                      [Idle EXCEPT !.pc = "handle", !.n = workers[t].n + 1]]
    /\ UNCHANGED <<allowed, sys, indicators, volumes, served, last, jobs>>

\* memoize, first half: the wrapper reads app._cache into a local
Grab(t, p) ==
    /\ workers[t].pc = "handle"
    /\ workers[t].reads < MaxReads
    /\ workers' = [workers EXCEPT ![t].pc = "lookup", ![t].prop = p,
                                  ![t].held = cache.current,
                                  ![t].reads = @ + 1]
    /\ UNCHANGED <<allowed, sys, indicators, volumes, served, last, cache,
                   jobs>>

\* memoize, second half: a hit returns the cached value, a miss goes on to
\* build the driver
Lookup(t) ==
    LET w == workers[t]
        d == cache.dicts[w.held + 1]
    IN  /\ w.pc = "lookup"
        /\ workers' = [workers EXCEPT ![t] =
                          IF w.prop \in DOMAIN d
                          THEN [w EXCEPT !.pc = "handle",
                                         !.served = @ \cup {d[w.prop]}]
                          ELSE [w EXCEPT !.pc = "build"]]
        /\ UNCHANGED <<allowed, sys, indicators, volumes, served, last,
                       cache, jobs>>

\* memoize, on a miss: the value the property computes is stored in the
\* dict the wrapper read, and returned
Store(t) ==
    LET w == workers[t]
    IN  /\ w.pc = "build"
        /\ cache' = [cache EXCEPT !.dicts[w.held + 1] =
                        (w.prop :> RequestOf(t)) @@ @]
        /\ workers' = [workers EXCEPT ![t].pc = "handle",
                                      ![t].stored = @ \cup {w.prop}]
        /\ UNCHANGED <<allowed, sys, indicators, volumes, served, last, jobs>>

\* the handler returns its response
EndRequest(t) ==
    /\ workers[t].pc = "handle"
    /\ workers' = [workers EXCEPT ![t] = [Idle EXCEPT !.n = workers[t].n]]
    /\ UNCHANGED <<allowed, sys, indicators, volumes, served, last, cache,
                   jobs>>

InitThreads ==
    /\ Init
    /\ ~allowed.configured
    /\ volumes = [k \in SystemUuids \X StorageIds |-> <<>>]

NextThreads ==
    \E t \in Threads :
        \/ BeginRequest(t)
        \/ \E p \in Properties : Grab(t, p)
        \/ Lookup(t)
        \/ Store(t)
        \/ EndRequest(t)

SpecThreads == InitThreads /\ [][NextThreads]_vars

\* C21: each request has its own descriptor cache.  While a request is in
\* flight, every entry it cached is still in app._cache with the value it
\* stored (no other request's reset discarded or replaced it), and every
\* value the cache served to it was computed by that same request.
C21_CachePerRequest ==
    \A t \in Threads :
        workers[t].pc # "idle"
        => /\ \A p \in workers[t].stored :
                 /\ p \in DOMAIN CurrentDict
                 /\ CurrentDict[p] = RequestOf(t)
           /\ workers[t].served \subseteq {RequestOf(t)}

\* The second half of C21 alone: no value computed during one request is
\* served from the cache to another.
NoForeignValueServed ==
    \A t \in Threads :
        workers[t].pc # "idle" => workers[t].served \subseteq {RequestOf(t)}

-------------------
\* Two worker threads, each handling one request on the volume side-table
\* key of the first system and storage.  A step is one call into
\* app.volumes or app.systems; main.py takes no lock around them.

Key == <<systems[1], "s1">>

\* The list object the loop `for vol in vol_col` walks.
Walked(j) == IF j.aliased THEN volumes[Key] ELSE j.col

\* The positions from i on whose record has the wanted Id.
Matches(j) == { k \in j.i..Len(Walked(j)) : Walked(j)[k].Id = j.wanted }

\* The handler starts: GET and single-volume GET fetch the list with
\* get_volumes_col, POST builds its record.
StartJob(t, kind, now, wanted, aliased) ==
    /\ jobs.of[t].pc = "idle"
    /\ jobs' = [jobs EXCEPT !.of[t] =
                   [NoJob EXCEPT
                       !.kind = kind, !.pc = "ask", !.now = now,
                       !.wanted = wanted, !.aliased = aliased,
                       !.col = IF kind = "POST" THEN <<>>
                               ELSE get_volumes_col(volumes, Key[1], Key[2]),
                       !.vol = IF kind = "POST"
                               THEN NewVolume(VolumeBody, now)
                               ELSE NoJob.vol]]
    /\ UNCHANGED <<allowed, sys, indicators, volumes, served, last, cache,
                   workers>>

\* The loop takes its next record, or the POST its new one, and asks the
\* backend with find_or_create_storage_volume; a loop with no record left
\* ends the handler.
Ask(t) ==
    LET j == jobs.of[t]
        k == IF j.kind = "volume"
             THEN (IF Matches(j) = {} THEN 0
                   ELSE CHOOSE m \in Matches(j) : \A n \in Matches(j) : m <= n)
             ELSE (IF j.i <= Len(Walked(j)) THEN j.i ELSE 0)
        vol == IF j.kind = "POST" THEN j.vol ELSE Walked(j)[k]
    IN  /\ j.pc = "ask"
        /\ jobs' = [jobs EXCEPT !.of[t] =
                       IF j.kind # "POST" /\ k = 0
                       THEN IF j.kind = "GET"
                            THEN [j EXCEPT !.pc = "done", !.st = 200]
                            ELSE [j EXCEPT !.pc = "done", !.exc = "NotFound"]
                       ELSE [j EXCEPT !.pc = "decide", !.i = k, !.vol = vol,
                                      !.ret = ReturnedId(jobs.rets[vol.Id],
                                                         vol)]]
        /\ UNCHANGED <<allowed, sys, indicators, volumes, served, last, cache,
                       workers>>

\* The handler acts on what the backend returned: a stale record is removed
\* with delete_volume, a materialized new one recorded with add_volume.
Decide(t) ==
    LET j == jobs.of[t]
        table == volumes[Key]
        stale == ~Truthy(j.ret)
    IN  /\ j.pc = "decide"
        /\ volumes' =
              IF j.kind = "POST"
              THEN (IF stale THEN volumes
                    ELSE add_volume(Start, Key[1], Key[2], j.vol).vols)
              ELSE (IF stale
                    THEN delete_volume(Start, Key[1], Key[2], j.vol).vols
                    ELSE volumes)
        /\ jobs' = [jobs EXCEPT
                       !.deletes =
                           IF j.kind # "POST" /\ stale
                           THEN Append(@, [vol |-> j.vol, by |-> t,
                                           found |-> j.vol \in Range(table)])
                           ELSE @,
                       !.of[t] =
                           CASE j.kind = "POST" ->
                                  [j EXCEPT !.pc = "done",
                                            !.st = IF stale THEN 0 ELSE 201]
                             [] j.kind = "GET" ->
                                  [j EXCEPT !.pc = "ask", !.i = @ + 1]
                             [] OTHER ->
                                  IF stale
                                  THEN [j EXCEPT !.pc = "done",
                                                 !.exc = "NotFound"]
                                  ELSE [j EXCEPT !.pc = "done", !.st = 200]]
        /\ UNCHANGED <<allowed, sys, indicators, served, last, cache,
                       workers>>

\* The tables the two requests can start with: records earlier POSTs left.
StartTables ==
    {<<>>, <<NewVolume(NoBody, "235959")>>,
     <<NewVolume(NoBody, "235959"), NewVolume(NoBody, "000000")>>}

InitVolumes ==
    /\ allowed \in AllowLists
    /\ ~allowed.configured
    /\ sys = [u \in SystemUuids |-> InitialSystem]
    /\ indicators = [k \in IndicatorKeys |-> None]
    /\ served = 0
    /\ last = NoRequest
    /\ cache = NoCache
    /\ workers = [t \in Threads |-> Idle]
    /\ \E table \in StartTables, rets \in [RecordIds -> {None, "Id"}] :
          /\ volumes = [k \in SystemUuids \X StorageIds |->
                           IF k = Key THEN table ELSE <<>>]
          /\ jobs = [NoJobs EXCEPT !.rets = rets, !.start = table]

NextVolumes ==
    \E t \in Threads :
        \/ \E aliased \in BOOLEAN : StartJob(t, "GET", None, None, aliased)
        \/ \E wanted \in RecordIds : StartJob(t, "volume", None, wanted, FALSE)
        \/ \E now \in Times : StartJob(t, "POST", now, None, FALSE)
        \/ Ask(t)
        \/ Decide(t)

SpecVolumes == InitVolumes /\ [][NextVolumes]_vars

\* The handler of main.py run as a whole on a table, for the request of a
\* job.
Sequential(table, j) ==
    LET c == [Start EXCEPT !.vols = [volumes EXCEPT ![Key] = table]]
    IN  CASE j.kind = "GET" ->
               volumes_collection(c, "GET", Key[1], Key[2], NoBody, None,
                                  jobs.rets, j.aliased, "none")
          [] j.kind = "POST" ->
               volumes_collection(c, "POST", Key[1], Key[2], VolumeBody,
                                  j.now, jobs.rets, FALSE, "none")
          [] OTHER ->
               volume(c, Key[1], Key[2], j.wanted, jobs.rets, "none")

\* Table and failures after the request of thread a, then that of thread b.
SerialOutcome(a, b) ==
    LET ra == Sequential(jobs.start, jobs.of[a])
        rb == Sequential(ra.vols[Key], jobs.of[b])
    IN  [table |-> rb.vols[Key],
         exc |-> (a :> ra.exc.kind) @@ (b :> rb.exc.kind)]

BothDone == \A t \in Threads : jobs.of[t].pc = "done"

\* C22: concurrent operations on one volume key are serialized.  No
\* delete_volume call is made for a record another request already
\* removed; and when both requests are done, the table and the failures
\* are those of running the two requests one after the other in some
\* order, and the record of a POST answered 201 whose disk is live is in
\* the table.
C22_VolumeOpsSerialized ==
    /\ \A i \in 1..Len(jobs.deletes) : jobs.deletes[i].found
    /\ BothDone
       => /\ \E a, b \in Threads :
                /\ a # b
                /\ SerialOutcome(a, b) =
                      [table |-> volumes[Key],
                       exc |-> [t \in Threads |-> jobs.of[t].exc]]
          /\ \A t \in Threads :
                (jobs.of[t].st = 201 /\ Truthy(jobs.rets[jobs.of[t].vol.Id]))
                => jobs.of[t].vol \in Range(volumes[Key])

\* The serial-outcome part of C22 alone.
SerialOutcomeReached ==
    BothDone
    => \E a, b \in Threads :
          /\ a # b
          /\ SerialOutcome(a, b) =
                [table |-> volumes[Key],
                 exc |-> [t \in Threads |-> jobs.of[t].exc]]

====
